---- MODULE Spec2Model ----
(***************************************************************************)
(* A model of twisted/names/authority.py: MemoryAuthority (_lookup,        *)
(* _additionalRecords, lookupZone, _defaultTTL), FileAuthority (__init__,  *)
(* __setstate__), PySourceAuthority.loadFile and the BindAuthority         *)
(* zone-file loader (stripComments, collapseContinuations, parseLines,     *)
(* parseRecordLine, addRecord, class_IN).                                  *)
(*                                                                         *)
(* A Python string (a domain name, a token of a zone file) is the list of  *)
(* its characters: 'a.b' is <<"a", ".", "b">> and '' is << >>.  A record   *)
(* type (dns.A, dns.NS, ...), an integer constant in the code, is written  *)
(* by its name: "A", "NS", ...                                             *)
(*                                                                         *)
(* self.records, a dict, is the function from its keys to their record     *)
(* lists.  The order in which the dict iterates is the hash table's, not   *)
(* the program's: it is a variable of its own, any order at first, and a   *)
(* new key may come to stand anywhere in it.                               *)
(***************************************************************************)
EXTENDS Integers, Sequences, FiniteSets, TLC

VARIABLES
    records,          \* self.records: the dict, a function from each key to its record list
    order,            \* the keys of self.records in the order the dict iterates
    soa,              \* self.soa: <<apex name, SOA record>>
    defaultTTLValue,  \* self._defaultTTLValue
    pc,               \* where the constructor of the authority stands
    result,           \* what the last call returned to the caller
    lines,            \* BindAuthority: the lines of the zone file, then the logical lines
    index,            \* BindAuthority.parseLines: the loop index
    ORIGIN,           \* BindAuthority.parseLines: ORIGIN
    TTL,              \* BindAuthority.parseLines: TTL
    error,            \* the exception that left the constructor, if any
    file,             \* BindAuthority: the lines of the zone file, as read
    zone,             \* PySourceAuthority: the namespace l the file leaves, with its zone list
    printed           \* BindAuthority.class_IN: what it has printed, a (domain, ttl, record) per record

vars == <<records, order, soa, defaultTTLValue, pc, result, lines, index, ORIGIN, TTL,
          error, file, zone, printed>>

---------------------------------------------------------------------------
(* Bounds *)

\* the longest record list of the queried owner
MaxRecs == 2
\* the most physical lines of a zone file
MaxLines == 3
\* the most entries of the zone list of a Python source file
MaxEntries == 2

---------------------------------------------------------------------------
(* Strings *)

\* 'example.com': the zone's name, as the key of its records
Apex == <<"e", "x", "a", "m", "p", "l", "e", ".", "c", "o", "m">>

\* 'Example.COM': the zone's name in another case
ApexMixed == <<"E", "x", "a", "m", "p", "l", "e", ".", "C", "O", "M">>

\* 'child.example.com': the owner whose record list is tried
Child == <<"c", "h", "i", "l", "d", ".", "e", "x", "a", "m", "p", "l", "e", ".", "c", "o", "m">>

\* 'Child.example.COM': that owner in another case
ChildMixed == <<"C", "h", "i", "l", "d", ".", "e", "x", "a", "m", "p", "l", "e", ".", "C", "O", "M">>

\* 'www.example.com': the key of the address records
Www == <<"w", "w", "w", ".", "e", "x", "a", "m", "p", "l", "e", ".", "c", "o", "m">>

\* 'WWW.example.com': the name the NS, CNAME and MX records tried point to: the key Www in another case
Target == <<"W", "W", "W", ".", "e", "x", "a", "m", "p", "l", "e", ".", "c", "o", "m">>

\* 'other.org': a name outside the zone
Outside == <<"o", "t", "h", "e", "r", ".", "o", "r", "g">>

\* '10.0.0.1': an address
Address == <<"1", "0", ".", "0", ".", "0", ".", "1">>

\* 'example.com.': self.origin = os.path.basename(filename) + '.', of the file example.com
Origin == <<"e", "x", "a", "m", "p", "l", "e", ".", "c", "o", "m", ".">>

\* the tokens of the zone files tried, and the strings the code compares them with
s_IN == <<"I", "N">>
s_CS == <<"C", "S">>
s_CH == <<"C", "H">>
s_HS == <<"H", "S">>
s_ANY == <<"A", "N", "Y">>
s_A == <<"A">>
s_NS == <<"N", "S">>
s_CNAME == <<"C", "N", "A", "M", "E">>
s_SOA == <<"S", "O", "A">>
s_MX == <<"M", "X">>
s_TXT == <<"T", "X", "T">>
s_AAAA == <<"A", "A", "A", "A">>
s_FOO == <<"F", "O", "O">>
s_www == <<"w", "w", "w">>
s_WWW == <<"W", "W", "W">>
s_mail == <<"m", "a", "i", "l">>
s_t == <<"t">>
s_a == <<"a">>
s_b == <<"b">>
s_x == <<"x">>
s_ns1 == <<"n", "s", "1">>
s_admin == <<"a", "d", "m", "i", "n">>
s_300 == <<"3", "0", "0">>
s_1 == <<"1">>
s_2 == <<"2">>
s_3 == <<"3">>
s_4 == <<"4">>
s_5 == <<"5">>
s_at == <<"@">>
s_open == <<"(">>
s_close == <<")">>
s_semi == <<";">>
s_TTL == <<"$", "T", "T", "L">>
s_ORIGIN == <<"$", "O", "R", "I", "G", "I", "N">>
s_INCLUDE == <<"$", "I", "N", "C", "L", "U", "D", "E">>
s_GENERATE == <<"$", "G", "E", "N", "E", "R", "A", "T", "E">>
s_range == <<"1", "-", "2">>
s_other_zone == <<"o", "t", "h", "e", "r", ".", "z", "o", "n", "e">>
s_Example_ORG == <<"E", "x", "a", "m", "p", "l", "e", ".", "O", "R", "G", ".">>

\* the letters, upper case and lower case
Letters ==
    <<<<"A", "a">>, <<"B", "b">>, <<"C", "c">>, <<"D", "d">>, <<"E", "e">>, <<"F", "f">>,
      <<"G", "g">>, <<"H", "h">>, <<"I", "i">>, <<"J", "j">>, <<"K", "k">>, <<"L", "l">>,
      <<"M", "m">>, <<"N", "n">>, <<"O", "o">>, <<"P", "p">>, <<"Q", "q">>, <<"R", "r">>,
      <<"S", "s">>, <<"T", "t">>, <<"U", "u">>, <<"V", "v">>, <<"W", "w">>, <<"X", "x">>,
      <<"Y", "y">>, <<"Z", "z">>>>

\* the lower-case letter of each upper-case one, and the reverse
LowerOf ==
    [c \in {Letters[i][1] : i \in 1..Len(Letters)} |->
        Letters[CHOOSE i \in 1..Len(Letters) : Letters[i][1] = c][2]]
UpperOf ==
    [c \in {Letters[i][2] : i \in 1..Len(Letters)} |->
        Letters[CHOOSE i \in 1..Len(Letters) : Letters[i][2] = c][1]]

\* s.lower(): every upper-case letter replaced, every other character kept
lower(s) == [i \in 1..Len(s) |-> IF s[i] \in DOMAIN LowerOf THEN LowerOf[s[i]] ELSE s[i]]

\* s.upper()
upper(s) == [i \in 1..Len(s) |-> IF s[i] \in DOMAIN UpperOf THEN UpperOf[s[i]] ELSE s[i]]

\* s.find(x): the place of the first x in s, 0 (Python: -1) when there is none.  s is a
\* string and x a character, or s is a line and x a token of it
find(s, x) ==
    IF \E i \in 1..Len(s) : s[i] = x
    THEN CHOOSE i \in 1..Len(s) : s[i] = x /\ \A j \in 1..(i - 1) : s[j] # x
    ELSE 0

\* s[:s.find(x)] of an s that has x
upTo(s, x) == SubSeq(s, 1, find(s, x) - 1)

RECURSIVE split(_, _)
\* s.split(c)
split(s, c) ==
    IF find(s, c) = 0 THEN <<s>>
    ELSE <<upTo(s, c)>> \o split(SubSeq(s, find(s, c) + 1, Len(s)), c)

\* s.endswith(suffix)
endswith(s, suffix) ==
    Len(s) >= Len(suffix) /\ SubSeq(s, Len(s) - Len(suffix) + 1, Len(s)) = suffix

\* the decimal digits, by their value plus one
Digits == <<"0", "1", "2", "3", "4", "5", "6", "7", "8", "9">>

\* s.isdigit(): not empty, and digits only
isdigit(s) == s # << >> /\ \A i \in 1..Len(s) : find(Digits, s[i]) # 0

RECURSIVE int(_)
\* int(s) of a string of digits
int(s) ==
    IF s = << >> THEN 0
    ELSE 10 * int(SubSeq(s, 1, Len(s) - 1)) + (find(Digits, s[Len(s)]) - 1)

---------------------------------------------------------------------------
(* Values *)

\* Python's None, where an integer (a TTL) is expected
None == -1

\* Python's None, where a record is expected
NoneRecord == [TYPE |-> "NoneType"]

\* soa = (b'', None): self.soa of an authority constructed without an SOA
DefaultSoa == << << >>, NoneRecord >>

\* a dns.Record_*: its TYPE, its ttl and its payload fields
Record(TYPE, ttl, name) == [TYPE |-> TYPE, ttl |-> ttl, name |-> name]

\* a dns.Record_SOA, with the two fields _defaultTTL reads
Record_SOA(ttl, minimum, expire) ==
    [TYPE |-> "SOA", ttl |-> ttl, name |-> s_ns1, minimum |-> minimum, expire |-> expire]

\* dns.RRHeader(name, type, dns.IN, ttl, payload, auth)
RRHeader(name, type, ttl, payload, auth) ==
    [name |-> name, type |-> type, cls |-> "IN", ttl |-> ttl, payload |-> payload, auth |-> auth]

_ADDITIONAL_PROCESSING_TYPES == {"CNAME", "MX", "NS"}
_ADDRESS_TYPES == {"A", "AAAA"}
ALL_RECORDS == "ALL"

---------------------------------------------------------------------------
(* The store *)

\* the keys of self.records
Keys == DOMAIN records

\* self.records.get(key, ()): the record list of key, None and () both read as the empty list
get(key) == IF key \in Keys THEN records[key] ELSE << >>

\* self.records.items(): the (key, record list) pairs, as the dict iterates
items == [i \in 1..Len(order) |-> <<order[i], records[order[i]]>>]

\* the orders in which a dict of these keys can iterate: any
itemOrders(keys) ==
    {o \in [1..Cardinality(keys) -> keys] : \A key \in keys : \E i \in DOMAIN o : o[i] = key}

\* self.records.setdefault(key, []).append(r), on the dict
setdefaultAppend(store, key, r) ==
    [k \in DOMAIN store \cup {key} |->
        IF k = key THEN Append(IF key \in DOMAIN store THEN store[key] ELSE << >>, r)
        ELSE store[k]]

\* self.records.setdefault(key, []), on the iteration order: the orders it can leave.
\* A key that is there keeps its place; a new key comes to stand anywhere, the others
\* keeping their order (the table of a dict this small is not rebuilt)
setdefaultOrders(o, key) ==
    IF \E i \in 1..Len(o) : o[i] = key THEN {o}
    ELSE {SubSeq(o, 1, at - 1) \o <<key>> \o SubSeq(o, at, Len(o)) : at \in 1..(Len(o) + 1)}

\* the _defaultTTL property, of an authority that has a default or its SOA
_defaultTTL ==
    IF defaultTTLValue = None
    THEN (IF soa[2].minimum >= soa[2].expire THEN soa[2].minimum ELSE soa[2].expire)
    ELSE defaultTTLValue

\* the _defaultTTL property raises: no default was given, and self.soa[1] is None
defaultRaises == defaultTTLValue = None /\ soa[2] = NoneRecord

\* dns._nameToLabels
_nameToLabels(name) ==
    IF name \in {<< >>, <<".">>} THEN << << >> >>
    ELSE LET labels == split(name, ".")
         IN  IF labels[Len(labels)] # << >> THEN Append(labels, << >>) ELSE labels

\* dns._isSubdomainOf(descendantName, ancestorName)
_isSubdomainOf(descendantName, ancestorName) ==
    LET d == _nameToLabels(lower(descendantName))
        a == _nameToLabels(lower(ancestorName))
    IN  /\ Len(d) >= Len(a)
        /\ SubSeq(d, Len(d) - Len(a) + 1, Len(d)) = a

---------------------------------------------------------------------------
(* MemoryAuthority._lookup *)

\* what a call hands to its caller: defer.succeed((answer, authority, additional))
Success(answer, authority, additional) ==
    [kind |-> "success", answer |-> answer, authority |-> authority, additional |-> additional]

\* defer.fail(failure.Failure(exception(name))): an error and nothing else
Failure(exception, name) == [kind |-> "failure", error |-> exception, name |-> name]

\* the call raises instead of returning: an attribute of self.soa[1], which is None,
\* is read
AttributeError == [kind |-> "raised", error |-> "AttributeError"]

\* recordTTL with the test of _additionalRecords: a TTL of 0 gives way to the default
recordTTL_truthy(record) ==
    IF record.ttl # None /\ record.ttl # 0 THEN record.ttl ELSE _defaultTTL

\* the TTL of a header of _lookup and lookupZone: the record's own, else the default
recordTTL(record) == IF record.ttl # None THEN record.ttl ELSE _defaultTTL

\* rec.ttl or self._defaultTTL: None and 0 are both false
additionalTTL(rec) == IF rec.ttl # None /\ rec.ttl # 0 THEN rec.ttl ELSE _defaultTTL

\* the address records _additionalRecords finds for one record of answer + authority
addressRecords(record) ==
    IF record.type \in _ADDITIONAL_PROCESSING_TYPES
    THEN SelectSeq(get(lower(record.payload.name)), LAMBDA rec : rec.TYPE \in _ADDRESS_TYPES)
    ELSE << >>

\* the headers _additionalRecords yields for one record of answer + authority
additionalFor(record) ==
    LET recs == addressRecords(record)
    IN  [i \in 1..Len(recs) |->
            RRHeader(record.payload.name, recs[i].TYPE, additionalTTL(recs[i]), recs[i], TRUE)]

RECURSIVE additionalOver(_)
\* the loop of _additionalRecords over a list of headers
additionalOver(headers) ==
    IF headers = << >> THEN << >>
    ELSE additionalFor(Head(headers)) \o additionalOver(Tail(headers))

\* MemoryAuthority._additionalRecords(answer, authority)
_additionalRecords(answer, authority) == additionalOver(answer \o authority)

\* _additionalRecords raises: an address record needs the default, and there is none
additionalRaises(headers) ==
    /\ defaultRaises
    /\ \E i \in 1..Len(headers) :
          \E j \in 1..Len(addressRecords(headers[i])) :
              addressRecords(headers[i])[j].ttl \in {None, 0}

\* isReferral with the comparison of the names inverted
isReferral_inverted(record, name) == record.TYPE = "NS" /\ lower(name) = lower(soa[1])

\* an NS record of a name other than the zone's: a referral
isReferral(record, name) == record.TYPE = "NS" /\ lower(name) # lower(soa[1])

\* one pass of the loop of _lookup raises: the record needs the default, and there is
\* none
stepRaises(record) == record.ttl = None /\ defaultRaises

\* one pass of the loop of _lookup over a record of the queried name
lookupStep(st, record, name, type) ==
    IF st.raised THEN st
    ELSE IF stepRaises(record) THEN [st EXCEPT !.raised = TRUE]
    ELSE LET ttl == recordTTL(record)
             st1 == IF isReferral(record, name)
                    THEN [st EXCEPT !.authority =
                             Append(@, RRHeader(name, record.TYPE, ttl, record, FALSE))]
                    ELSE IF record.TYPE = type \/ type = ALL_RECORDS
                    THEN [st EXCEPT !.results =
                             Append(@, RRHeader(name, record.TYPE, ttl, record, TRUE))]
                    ELSE st
             st2 == IF record.TYPE = "CNAME"
                    THEN [st1 EXCEPT !.cnames =
                             Append(@, RRHeader(name, record.TYPE, ttl, record, TRUE))]
                    ELSE st1
         IN  [st2 EXCEPT !.ttl = ttl]

RECURSIVE lookupLoop(_, _, _, _)
\* the loop of _lookup over domain_records
lookupLoop(st, domain_records, name, type) ==
    IF domain_records = << >> THEN st
    ELSE lookupLoop(lookupStep(st, Head(domain_records), name, type),
                    Tail(domain_records), name, type)

\* extendsResults testing the answer for a CNAME instead of the owner's record list
extendsResults_answer(cnames, results) ==
    \E i \in 1..Len(results) : results[i].type = "CNAME"

\* whether the additional information is put into the answer (if cnames:)
extendsResults(cnames, results) == cnames # << >>

\* lookupFailure without the test for a name of the zone
lookupFailure_outside(name) == Failure("DomainError", name)

\* the failure of _lookup for a name with no records
lookupFailure(name) ==
    IF _isSubdomainOf(name, soa[1])
    THEN Failure("AuthoritativeDomainError", name)
    ELSE Failure("DomainError", name)

\* whether _lookup takes the branch of a name with records (if domain_records:)
hasRecords(domain_records) == domain_records # << >>

\* MemoryAuthority._lookup(name, cls, type)
_lookup(name, type) ==
    LET domain_records == get(lower(name))
    IN  IF hasRecords(domain_records)
        THEN LET st == lookupLoop([results |-> << >>, authority |-> << >>,
                                   cnames |-> << >>, ttl |-> None, raised |-> FALSE],
                                  domain_records, name, type)
                 results1 == IF st.results = << >> THEN st.cnames ELSE st.results
                 additionalInformation == _additionalRecords(results1, st.authority)
                 toAnswer == extendsResults(st.cnames, results1)
                 results == IF toAnswer THEN results1 \o additionalInformation ELSE results1
                 additional == IF toAnswer THEN << >> ELSE additionalInformation
                 authority ==
                     IF results = << >> /\ st.authority = << >>
                     THEN <<RRHeader(soa[1], "SOA", st.ttl, soa[2], TRUE)>>
                     ELSE st.authority
             IN  IF st.raised \/ additionalRaises(results1 \o st.authority)
                 THEN AttributeError
                 ELSE Success(results, authority, additional)
        ELSE lookupFailure(name)

---------------------------------------------------------------------------
(* MemoryAuthority.lookupZone *)

\* zoneItem without the test that leaves the SOA record out
zoneItem_all(k, r) ==
    [i \in 1..Len(r) |-> RRHeader(k, r[i].TYPE, recordTTL(r[i]), r[i], TRUE)]

\* the headers lookupZone appends for one item (k, r) of the store
zoneItem(k, r) ==
    LET recs == SelectSeq(r, LAMBDA rec : rec.TYPE # "SOA")
    IN  [i \in 1..Len(recs) |-> RRHeader(k, recs[i].TYPE, recordTTL(recs[i]), recs[i], TRUE)]

RECURSIVE zoneItems(_)
\* the loop of lookupZone over self.records.items()
zoneItems(its) ==
    IF its = << >> THEN << >>
    ELSE zoneItem(Head(its)[1], Head(its)[2]) \o zoneItems(Tail(its))

\* zoneFailure with the error _lookup has for a name of the zone
zoneFailure_authoritative(name) == Failure("AuthoritativeDomainError", name)

\* the failure of lookupZone for a name that is not the zone's
zoneFailure(name) == Failure("DomainError", name)

\* MemoryAuthority.lookupZone(name)
lookupZone(name) ==
    IF lower(soa[1]) = lower(name)
    THEN IF soa[2] = NoneRecord THEN AttributeError
         ELSE LET soa_ttl == recordTTL(soa[2])
                  first == RRHeader(soa[1], "SOA", soa_ttl, soa[2], TRUE)
              IN  Success(<<first>> \o zoneItems(items) \o <<first>>, << >>, << >>)
    ELSE zoneFailure(name)

---------------------------------------------------------------------------
(* MemoryAuthority(soa, records, defaultTTL): the stores and the queries tried *)

\* the records tried in the list of the queried owner
OwnerRecords ==
    {Record("A", None, Address), Record("A", 0, Address),
     Record("NS", None, Target), Record("NS", 7, Target),
     Record("CNAME", None, Target), Record("MX", 7, Target)}

\* the lists of at most n elements of S
ListsUpTo(S, n) == UNION {[1..k -> S] : k \in 0..n}

\* the record lists tried under the key the records above point to
GlueLists ==
    {<< >>,
     <<Record("A", 0, Address), Record("A", 7, Address), Record("AAAA", None, Address)>>}

\* the SOA records tried: without and with a TTL of their own
SoaRecords == {Record_SOA(None, 1, 2), Record_SOA(9, 4, 2)}

\* the values of defaultTTL tried: none given, and one given
DefaultTTLs == {None, 3}

\* the records of a zone: the apex with its SOA alone or followed by an NS record of
\* the zone itself, the owner, and the key of the address records if it has any
Store(layout, soaRecord, owner, glue) ==
    [k \in {Apex, Child} \cup (IF glue = << >> THEN {} ELSE {Www}) |->
        IF k = Apex
        THEN (IF layout = 1 THEN <<soaRecord>> ELSE <<soaRecord, Record("NS", 0, Target)>>)
        ELSE IF k = Child THEN owner ELSE glue]

\* the name of the zone as given to the constructor
SoaName(layout) == IF layout = 1 THEN Apex ELSE ApexMixed

\* the names queried: the apex and the owner, each in two cases, the key of the address
\* records, a name outside the zone, and the empty name
QueryNames == {Apex, ApexMixed, Child, ChildMixed, Www, Outside, << >>}

\* the types queried
QueryTypes == {"A", "NS", "CNAME", "MX", ALL_RECORDS}

\* no call made yet
NoResult == [call |-> <<"none", << >>, "">>, value |-> [kind |-> "none"]]

\* the namespace of a Python source file that defines no zone
NoZone == [defined |-> FALSE, zone |-> << >>]

\* MemoryAuthority.__init__(soa, records, defaultTTL)
Init ==
    /\ \E layout \in {1, 2}, soaRecord \in SoaRecords,
          owner \in ListsUpTo(OwnerRecords, MaxRecs), glue \in GlueLists :
            /\ records = Store(layout, soaRecord, owner, glue)
            /\ soa = <<SoaName(layout), soaRecord>>
    /\ order \in itemOrders(Keys)
    /\ defaultTTLValue \in DefaultTTLs
    /\ pc = "ready"
    /\ result = NoResult
    /\ lines = << >>
    /\ index = 0
    /\ ORIGIN = << >>
    /\ TTL = 0
    /\ error = ""
    /\ file = << >>
    /\ zone = NoZone
    /\ printed = << >>

\* a caller's lookup(name, cls, type) on the authority it holds
Lookup ==
    /\ pc = "ready"
    /\ result = NoResult
    /\ \E name \in QueryNames, type \in QueryTypes :
          result' = [call |-> <<"lookup", name, type>>, value |-> _lookup(name, type)]
    /\ UNCHANGED <<records, order, soa, defaultTTLValue, pc, lines, index, ORIGIN, TTL,
                   error, file, zone, printed>>

\* a caller's lookupZone(name) on the authority it holds
LookupZone ==
    /\ pc = "ready"
    /\ result = NoResult
    /\ \E name \in QueryNames :
          result' = [call |-> <<"lookupZone", name, "AXFR">>, value |-> lookupZone(name)]
    /\ UNCHANGED <<records, order, soa, defaultTTLValue, pc, lines, index, ORIGIN, TTL,
                   error, file, zone, printed>>

\* the Deferred of a call has fired already (defer.succeed, defer.fail), or the call has
\* raised: the caller takes the outcome, and the next call can be made
Callback ==
    /\ result # NoResult
    /\ result' = NoResult
    /\ UNCHANGED <<records, order, soa, defaultTTLValue, pc, lines, index, ORIGIN, TTL,
                   error, file, zone, printed>>

Next == Lookup \/ LookupZone \/ Callback

Spec == Init /\ [][Next]_vars

---------------------------------------------------------------------------
(* BindAuthority: the zone-file loader.  A line is the list of its tokens; "(", ")"  *)
(* and ";" stand as tokens of their own, as in a file that sets them off by spaces. *)

\* BindAuthority.stripComments(lines)
stripComments(ls) ==
    [i \in 1..Len(ls) |-> IF find(ls[i], s_semi) = 0 THEN ls[i] ELSE upTo(ls[i], s_semi)]

\* L[-1] += ' ' + text
extendLast(L, text) == [L EXCEPT ![Len(L)] = @ \o text]

\* one pass of the first loop of collapseContinuations, on the pair of L and state
collapseStep(acc, line) ==
    IF acc.state = 0
    THEN IF find(line, s_open) = 0
         THEN [L |-> Append(acc.L, line), state |-> 0]
         ELSE [L |-> Append(acc.L, upTo(line, s_open)), state |-> 1]
    ELSE IF find(line, s_close) # 0
         THEN [L |-> extendLast(acc.L, upTo(line, s_close)), state |-> 0]
         ELSE [L |-> extendLast(acc.L, line), state |-> 1]

RECURSIVE collapseLoop(_, _)
\* the first loop of collapseContinuations
collapseLoop(acc, ls) ==
    IF ls = << >> THEN acc ELSE collapseLoop(collapseStep(acc, Head(ls)), Tail(ls))

\* BindAuthority.collapseContinuations(lines): the lines joined, split into tokens,
\* the empty ones dropped
collapseContinuations(ls) ==
    SelectSeq(collapseLoop([L |-> << >>, state |-> 0], ls).L, LAMBDA line : line # << >>)

\* dns.QUERY_CLASSES.values()
QUERY_CLASSES == {s_IN, s_CS, s_CH, s_HS, s_ANY}

\* dns.QUERY_TYPES.values(), as far as the zone files tried use them
QUERY_TYPES == {s_A, s_NS, s_CNAME, s_SOA, s_MX, s_TXT, s_AAAA}

\* token in MARKERS
isMarker(token) == token \in (QUERY_CLASSES \cup QUERY_TYPES)

\* token in dns.QUERY_CLASSES.values()
isClass(token) == token \in QUERY_CLASSES

\* an exception raised, by its message or its class
Raise(exception) == [error |-> exception]

\* the suffixes of dns.str2time and what they multiply by
Suffixes ==
    <<<<"S", 1>>, <<"M", 60>>, <<"H", 60 * 60>>, <<"D", 60 * 60 * 24>>,
      <<"W", 60 * 60 * 24 * 7>>, <<"Y", 60 * 60 * 24 * 365>>>>

\* dns.str2time(s) of a string: the seconds, or the exception raised.  The numbers
\* before a suffix are strings of digits
str2time(s) ==
    LET u == upper(s)
        suffixed == u # << >> /\ \E k \in 1..Len(Suffixes) : u[Len(u)] = Suffixes[k][1]
        number == IF suffixed THEN SubSeq(u, 1, Len(u) - 1) ELSE u
        mult == IF suffixed
                THEN Suffixes[CHOOSE k \in 1..Len(Suffixes) : u[Len(u)] = Suffixes[k][1]][2]
                ELSE 1
    IN  IF isdigit(number) THEN [error |-> "", value |-> int(number) * mult]
        ELSE Raise("ValueError")

\* the end of parseRecordLine, from the optional class and TTL on
parseRest(owner, domain, ttl, line) ==
    IF line = << >> THEN Raise("IndexError")
    ELSE LET clsFirst == isClass(line[1])
             ttlFirst == ~clsFirst /\ isdigit(line[1])
             line1 == IF clsFirst \/ ttlFirst THEN Tail(line) ELSE line
         IN  IF (clsFirst \/ ttlFirst) /\ line1 = << >> THEN Raise("IndexError")
             ELSE LET second == IF clsFirst THEN isdigit(line1[1])
                                ELSE ttlFirst /\ isClass(line1[1])
                      line2 == IF second THEN Tail(line1) ELSE line1
                      cls == IF clsFirst THEN line[1]
                             ELSE IF second THEN line1[1] ELSE s_IN
                      ttl2 == IF ttlFirst THEN int(line[1])
                              ELSE IF second THEN int(line1[1]) ELSE ttl
                  IN  IF line2 = << >> THEN Raise("IndexError")
                      ELSE [error |-> "", owner |-> owner, ttl |-> ttl2, type |-> line2[1],
                            domain |-> domain, cls |-> cls, rdata |-> Tail(line2)]

\* BindAuthority.parseRecordLine(origin, ttl, line), up to its call of addRecord: the
\* arguments of that call, or the exception raised
parseRecordLine(origin, ttl, line) ==
    LET named == line[1] # s_at /\ ~isdigit(line[1]) /\ ~isMarker(line[1])
        owner == IF named THEN line[1] ELSE origin
        line1 == IF line[1] = s_at \/ named THEN Tail(line) ELSE line
    IN  IF line1 = << >> THEN Raise("IndexError")
        ELSE IF isdigit(line1[1]) \/ isMarker(line1[1])
             THEN parseRest(origin, owner, ttl, line1)
             ELSE parseRest(owner, line1[1], ttl, Tail(line1))

\* getattr(dns, 'Record_%s' % type, None): the TYPE of the class, "" when there is none
recordClass(type) ==
    CASE type = s_A -> "A"
      [] type = s_NS -> "NS"
      [] type = s_CNAME -> "CNAME"
      [] type = s_SOA -> "SOA"
      [] type = s_MX -> "MX"
      [] type = s_TXT -> "TXT"
      [] type = s_AAAA -> "AAAA"
      [] OTHER -> ""

\* argument i of a constructor is left out, or a time str2time takes
timeOrDefault(rdata, i) == Len(rdata) < i \/ str2time(rdata[i]).error = ""

\* the value of argument i of a constructor, a time: 0 when left out
timeValue(rdata, i) == IF Len(rdata) < i THEN 0 ELSE str2time(rdata[i]).value

\* dns.Record_<TYPE>(*rdata): the exception its constructor raises, "" when none
constructError(TYPE, rdata) ==
    CASE TYPE = "TXT" -> ""
      [] TYPE = "A" ->
            IF Len(rdata) > 2 THEN "TypeError"
            ELSE IF Len(rdata) >= 1 /\ ~(\A part \in {split(rdata[1], ".")[i] :
                                              i \in 1..Len(split(rdata[1], "."))} : isdigit(part))
            THEN "socket.error"
            ELSE IF ~timeOrDefault(rdata, 2) THEN "ValueError" ELSE ""
      [] TYPE = "AAAA" ->
            IF Len(rdata) > 2 THEN "TypeError"
            ELSE IF Len(rdata) >= 1 /\ find(rdata[1], ":") = 0 THEN "socket.error"
            ELSE IF ~timeOrDefault(rdata, 2) THEN "ValueError" ELSE ""
      [] TYPE = "MX" ->
            IF Len(rdata) > 3 THEN "TypeError"
            ELSE IF Len(rdata) >= 1 /\ ~isdigit(rdata[1]) THEN "ValueError"
            ELSE IF ~timeOrDefault(rdata, 3) THEN "ValueError" ELSE ""
      [] TYPE = "SOA" ->
            IF Len(rdata) > 8 THEN "TypeError"
            ELSE IF \E i \in 3..8 : ~timeOrDefault(rdata, i) THEN "ValueError" ELSE ""
      [] OTHER ->
            IF Len(rdata) > 2 THEN "TypeError"
            ELSE IF ~timeOrDefault(rdata, 2) THEN "ValueError" ELSE ""

\* r = record(*rdata); r.ttl = ttl
ParsedRecord(TYPE, rdata, ttl) ==
    LET name == IF TYPE = "MX" THEN (IF Len(rdata) >= 2 THEN rdata[2] ELSE << >>)
                ELSE IF TYPE \in {"NS", "CNAME", "SOA"} /\ rdata # << >> THEN rdata[1]
                ELSE << >>
    IN  IF TYPE = "SOA"
        THEN [TYPE |-> TYPE, ttl |-> ttl, name |-> name, rdata |-> rdata,
              minimum |-> timeValue(rdata, 7), expire |-> timeValue(rdata, 6)]
        ELSE [TYPE |-> TYPE, ttl |-> ttl, name |-> name, rdata |-> rdata]

\* BindAuthority.class_IN(ttl, type, domain, rdata): the record to store and its
\* domain, or the exception raised
class_IN(ttl, type, domain, rdata) ==
    IF recordClass(type) # ""
    THEN IF constructError(recordClass(type), rdata) = ""
         THEN [error |-> "", domain |-> domain,
               record |-> ParsedRecord(recordClass(type), rdata, ttl)]
         ELSE Raise(constructError(recordClass(type), rdata))
    ELSE Raise("Record type not supported")

\* the domain of addRecord: completed with the owner, or its last dot taken off
normalize(owner, domain) ==
    IF ~endswith(domain, <<".">>) THEN domain \o <<".">> \o owner
    ELSE SubSeq(domain, 1, Len(domain) - 1)

\* BindAuthority.addRecord(owner, ttl, type, domain, cls, rdata)
addRecord(owner, ttl, type, domain, cls, rdata) ==
    IF cls = s_IN
    THEN class_IN(ttl, type, normalize(owner, domain), rdata)
    ELSE Raise("Record class not supported")

\* the lines the zone files tried are made of
LineMenu ==
    {<<s_www, s_IN, s_A, Address>>,
     <<s_IN, s_A, Address>>,
     <<s_300, s_TXT, s_b>>,
     <<s_at, s_IN, s_SOA, s_ns1, s_admin, s_open, s_1, s_2, s_3, s_4, s_5, s_close>>,
     <<s_at, s_IN, s_SOA, s_ns1, s_admin, s_open>>,
     <<s_at, s_IN, s_SOA, s_ns1, s_admin, s_open, s_1, s_2>>,
     <<s_1, s_2>>,
     <<s_3, s_4, s_5, s_close>>,
     <<s_t, s_IN, s_TXT, s_open, s_a, s_close>>,
     <<s_INCLUDE, s_other_zone>>,
     <<s_GENERATE, s_range, s_x>>,
     <<s_mail, s_CH, s_A, Address>>,
     <<s_mail, s_IN, s_FOO, s_x>>,
     <<s_TTL, s_300>>,
     <<s_ORIGIN, s_Example_ORG>>,
     <<s_WWW, s_A, Address, s_semi, s_INCLUDE, s_x>>}

\* the entries (name, record) the zone lists of the Python source files tried are made of
ZoneMenu ==
    {<<ApexMixed, Record_SOA(None, 1, 2)>>,
     <<Target, Record("A", 0, Address)>>,
     <<Www, Record("AAAA", None, Address)>>,
     <<Apex, Record("NS", 7, Target)>>}

\* the states unpickled into an authority: a zone with a default TTL, and an empty one
PickledStates ==
    {[records |-> [k \in {Www, Apex} |->
                      IF k = Www THEN <<Record("A", 0, Address)>>
                      ELSE <<Record_SOA(None, 1, 2), Record("NS", None, Target)>>],
      soa |-> <<ApexMixed, Record_SOA(None, 1, 2)>>,
      defaultTTLValue |-> 3],
     [records |-> << >>, soa |-> DefaultSoa, defaultTTLValue |-> None]}

\* FileAuthority.__init__(filename) of a BindAuthority, after MemoryAuthority.__init__(self)
InitBind ==
    /\ file \in UNION {[1..n -> LineMenu] : n \in 1..MaxLines}
    /\ zone = NoZone
    /\ records = << >>
    /\ order = << >>
    /\ soa = DefaultSoa
    /\ defaultTTLValue = None
    /\ pc = "loadFile"
    /\ result = NoResult
    /\ lines = << >>
    /\ index = 0
    /\ ORIGIN = << >>
    /\ TTL = 0
    /\ error = ""
    /\ printed = << >>

\* FileAuthority.__init__(filename) of a PySourceAuthority, after
\* MemoryAuthority.__init__(self): the file defines a zone list, or none
InitPySource ==
    /\ file = << >>
    /\ zone \in {NoZone} \cup {[defined |-> TRUE, zone |-> z] : z \in ListsUpTo(ZoneMenu, MaxEntries)}
    /\ records = << >>
    /\ order = << >>
    /\ soa = DefaultSoa
    /\ defaultTTLValue = None
    /\ pc = "PySourceAuthority.loadFile"
    /\ result = NoResult
    /\ lines = << >>
    /\ index = 0
    /\ ORIGIN = << >>
    /\ TTL = 0
    /\ error = ""
    /\ printed = << >>

\* an exception leaves loadFile and the constructor
Raised(exception) ==
    /\ pc' = "raised"
    /\ error' = exception
    /\ UNCHANGED <<records, order, soa, defaultTTLValue, result, lines, index, ORIGIN, TTL,
                   file, zone, printed>>

RECURSIVE zoneStore(_, _)
\* the loop of PySourceAuthority.loadFile over the zone list: self.records
zoneStore(store, rrs) ==
    IF rrs = << >> THEN store
    ELSE zoneStore(setdefaultAppend(store, lower(Head(rrs)[1]), Head(rrs)[2]), Tail(rrs))

RECURSIVE zoneOrders(_, _)
\* the loop of PySourceAuthority.loadFile over the zone list: the orders in which
\* self.records can come to iterate
zoneOrders(o, rrs) ==
    IF rrs = << >> THEN {o}
    ELSE UNION {zoneOrders(o1, Tail(rrs)) : o1 \in setdefaultOrders(o, lower(Head(rrs)[1]))}

\* the loop of PySourceAuthority.loadFile over the zone list: self.soa, the last entry
\* with an SOA record
zoneSoa(rrs) ==
    LET soas == SelectSeq(rrs, LAMBDA rr : rr[2].TYPE = "SOA")
    IN  IF soas = << >> THEN soa ELSE soas[Len(soas)]

\* PySourceAuthority.loadFile, and the constructor hands the authority to its caller
LoadPySource ==
    /\ pc = "PySourceAuthority.loadFile"
    /\ IF ~zone.defined THEN Raised("No zone defined")
       ELSE /\ records' = zoneStore(<< >>, zone.zone)
            /\ order' \in zoneOrders(<< >>, zone.zone)
            /\ soa' = zoneSoa(zone.zone)
            /\ pc' = "ready"
            /\ UNCHANGED <<defaultTTLValue, result, lines, index, ORIGIN, TTL, error,
                           file, zone, printed>>

\* FileAuthority.__setstate__(state): the attributes are those of the state
SetState ==
    /\ pc = "ready"
    /\ result = NoResult
    /\ \E state \in PickledStates :
          /\ records' = state.records
          /\ order' \in itemOrders(DOMAIN state.records)
          /\ soa' = state.soa
          /\ defaultTTLValue' = state.defaultTTLValue
    /\ UNCHANGED <<pc, result, lines, index, ORIGIN, TTL, error, file, zone, printed>>

\* BindAuthority.loadFile: the lines read, and their comments stripped
StripComments ==
    /\ pc = "loadFile"
    /\ lines' = stripComments(file)
    /\ pc' = "collapseContinuations"
    /\ UNCHANGED <<records, order, soa, defaultTTLValue, result, index, ORIGIN, TTL, error,
                   file, zone, printed>>

\* BindAuthority.loadFile: the continuations collapsed, and parseLines up to its loop
CollapseContinuations ==
    /\ pc = "collapseContinuations"
    /\ lines' = collapseContinuations(lines)
    /\ TTL' = 60 * 60 * 3
    /\ ORIGIN' = Origin
    /\ records' = << >>
    /\ order' = << >>
    /\ index' = 1
    /\ pc' = "parseLines"
    /\ UNCHANGED <<soa, defaultTTLValue, result, error, file, zone, printed>>

\* the line the loop of parseLines is at
AtLine == pc = "parseLines" /\ index <= Len(lines)

\* parseLines: a $TTL line
ParseTTL ==
    /\ AtLine
    /\ lines[index][1] = s_TTL
    /\ IF Len(lines[index]) < 2 THEN Raised("IndexError")
       ELSE IF str2time(lines[index][2]).error # "" THEN Raised(str2time(lines[index][2]).error)
       ELSE /\ TTL' = str2time(lines[index][2]).value
            /\ index' = index + 1
            /\ UNCHANGED <<records, order, soa, defaultTTLValue, pc, result, lines, ORIGIN,
                           error, file, zone, printed>>

\* parseLines: a $ORIGIN line
ParseOrigin ==
    /\ AtLine
    /\ lines[index][1] = s_ORIGIN
    /\ IF Len(lines[index]) < 2 THEN Raised("IndexError")
       ELSE /\ ORIGIN' = lines[index][2]
            /\ index' = index + 1
            /\ UNCHANGED <<records, order, soa, defaultTTLValue, pc, result, lines, TTL,
                           error, file, zone, printed>>

\* parseLines: a $INCLUDE line
ParseInclude ==
    /\ AtLine
    /\ lines[index][1] = s_INCLUDE
    /\ Raised("$INCLUDE directive not implemented")

\* parseLines: a $GENERATE line
ParseGenerate ==
    /\ AtLine
    /\ lines[index][1] = s_GENERATE
    /\ Raised("$GENERATE directive not implemented")

\* the first tokens parseLines takes for directives
Directives == {s_TTL, s_ORIGIN, s_INCLUDE, s_GENERATE}

\* what parseRecordLine does with the line parseLines is at: the record to store and
\* its domain, or the exception raised
recordOfLine ==
    LET args == parseRecordLine(ORIGIN, TTL, lines[index])
    IN  IF args.error # "" THEN args
        ELSE addRecord(args.owner, args.ttl, args.type, args.domain, args.cls, args.rdata)

\* parseLines: any other line, a record line
ParseRecordLine ==
    /\ AtLine
    /\ lines[index][1] \notin Directives
    /\ \/ /\ recordOfLine.error # ""
          /\ Raised(recordOfLine.error)
       \/ /\ recordOfLine.error = ""
          /\ records' = setdefaultAppend(records, lower(recordOfLine.domain),
                                         recordOfLine.record)
          /\ order' \in setdefaultOrders(order, lower(recordOfLine.domain))
          /\ printed' = Append(printed, <<recordOfLine.domain, recordOfLine.record.ttl,
                                          recordOfLine.record>>)
          /\ soa' = IF recordOfLine.record.TYPE = "SOA"
                    THEN <<recordOfLine.domain, recordOfLine.record>>
                    ELSE soa
          /\ index' = index + 1
          /\ UNCHANGED <<defaultTTLValue, pc, result, lines, ORIGIN, TTL, error, file, zone>>

\* parseLines and loadFile return, and the constructor hands the authority to its caller
Constructed ==
    /\ pc = "parseLines"
    /\ index > Len(lines)
    /\ pc' = "ready"
    /\ UNCHANGED <<records, order, soa, defaultTTLValue, result, lines, index, ORIGIN, TTL,
                   error, file, zone, printed>>

\* the constructor of a file authority starts
InitFile == InitBind \/ InitPySource

NextFile ==
    \/ StripComments \/ CollapseContinuations
    \/ ParseTTL \/ ParseOrigin \/ ParseInclude \/ ParseGenerate \/ ParseRecordLine
    \/ Constructed
    \/ LoadPySource \/ SetState
    \/ Lookup \/ LookupZone \/ Callback

SpecFile == InitFile /\ [][NextFile]_vars

---------------------------------------------------------------------------
(* What the claims speak of, read off the last call *)

IsLookup == result.call[1] = "lookup"
IsLookupZone == result.call[1] = "lookupZone"
qname == result.call[2]
qtype == result.call[3]
value == result.value
Succeeded == value.kind = "success"
Failed == value.kind = "failure"

\* the sections a result has
Sections == DOMAIN value \cap {"answer", "authority", "additional"}

\* the records stored under the queried name
OwnerList == get(lower(qname))

\* the queried name is the zone's, in any case
AtApex == lower(qname) = lower(soa[1])

\* name is the zone's name, or ends with a dot and the zone's name, in any case
InZone(name) ==
    \/ lower(name) = lower(soa[1])
    \/ endswith(lower(name), <<".">> \o lower(soa[1]))

\* the TTL a record is served with: its own if set, else the configured default,
\* else the larger of the SOA's minimum and expire
EffectiveTTL(record) ==
    IF record.ttl # None THEN record.ttl
    ELSE IF defaultTTLValue # None THEN defaultTTLValue
    ELSE IF soa[2].minimum > soa[2].expire THEN soa[2].minimum ELSE soa[2].expire

\* the elements of a list, as a set
Range(list) == {list[i] : i \in 1..Len(list)}

\* the headers of the answer made from the owner's own records, and the synthesized
\* ones, which carry the name their record points to
OriginalAnswer == SelectSeq(value.answer, LAMBDA h : h.name = qname)
SynthesizedInAnswer == SelectSeq(value.answer, LAMBDA h : h.name # qname)

---------------------------------------------------------------------------
(* C1 *)

\* C1: a lookup of a name whose lower-cased form has no records (no key, or an empty
\* list) fails, with no sections: AuthoritativeDomainError(name) when the name is the
\* zone's or below it, DomainError(name) otherwise.
C1_NoRecordsFails ==
    (IsLookup /\ (lower(qname) \notin Keys \/ get(lower(qname)) = << >>)) =>
        /\ Failed
        /\ Sections = {}
        /\ value.name = qname
        /\ value.error = IF InZone(qname) THEN "AuthoritativeDomainError" ELSE "DomainError"

\* a name of the zone, in another case, whose key is there with an empty list
C1_Witness ==
    /\ IsLookup
    /\ qname = ChildMixed
    /\ lower(qname) \in Keys
    /\ get(lower(qname)) = << >>
    /\ Failed
    /\ value.error = "AuthoritativeDomainError"

---------------------------------------------------------------------------
(* C2 *)

\* C2 as stated: the synthesized address records are in the answer if the original
\* answer contained a CNAME record, and otherwise all in additional.
C2_Original ==
    (IsLookup /\ Succeeded) =>
        IF \E h \in Range(OriginalAnswer) : h.type = "CNAME"
        THEN value.additional = << >>
        ELSE SynthesizedInAnswer = << >>

\* C2, amended: the synthesized address records are appended to the answer if the
\* owner holds a CNAME record, whether or not it is in the answer, and otherwise they
\* are the additional section and the answer has none.
C2_Amended ==
    (IsLookup /\ Succeeded) =>
        LET synthesized == _additionalRecords(OriginalAnswer, value.authority)
        IN  IF \E rec \in Range(OwnerList) : rec.TYPE = "CNAME"
            THEN /\ value.answer = OriginalAnswer \o synthesized
                 /\ value.additional = << >>
            ELSE /\ value.answer = OriginalAnswer
                 /\ value.additional = synthesized

\* an owner with a CNAME and an MX record, queried for MX: the answer has no CNAME
\* and ends with the address of the exchange
C2_Witness ==
    /\ IsLookup /\ Succeeded
    /\ qtype = "MX"
    /\ \E rec \in Range(OwnerList) : rec.TYPE = "CNAME"
    /\ \A h \in Range(OriginalAnswer) : h.type = "MX"
    /\ OriginalAnswer # << >>
    /\ SynthesizedInAnswer # << >>
    /\ value.additional = << >>

---------------------------------------------------------------------------
(* C3 *)

\* the headers of the NS records of the queried owner, as referrals
Referrals ==
    LET ns == SelectSeq(OwnerList, LAMBDA rec : rec.TYPE = "NS")
    IN  [i \in 1..Len(ns) |-> RRHeader(qname, "NS", EffectiveTTL(ns[i]), ns[i], FALSE)]

\* C3: for an owner that is not the apex, whatever the type queried, the NS records
\* are in authority, in order and not authoritative, and none is in the answer; an
\* owner with NS records only, queried for A, gets an empty answer and these records
\* as the authority.
C3_Referral ==
    (IsLookup /\ Succeeded /\ ~AtApex) =>
        /\ \A h \in Range(value.answer) : h.type # "NS"
        /\ SelectSeq(value.authority, LAMBDA h : h.type = "NS") = Referrals
        /\ ((qtype = "A" /\ \A rec \in Range(OwnerList) : rec.TYPE = "NS") =>
                value.answer = << >> /\ value.authority = Referrals)

\* an owner with two NS records only, queried for NS in another case
C3_Witness ==
    /\ IsLookup /\ Succeeded /\ ~AtApex
    /\ qtype = "NS"
    /\ qname # lower(qname)
    /\ Len(OwnerList) = 2
    /\ \A rec \in Range(OwnerList) : rec.TYPE = "NS"
    /\ value.answer = << >>
    /\ Len(value.authority) = 2
    /\ value.authority[1].auth = FALSE

---------------------------------------------------------------------------
(* C4 *)

\* no record of the owner is a referral, of the type queried, or a CNAME
NothingToAnswer ==
    /\ OwnerList # << >>
    /\ \A rec \in Range(OwnerList) :
          /\ ~(rec.TYPE = "NS" /\ ~AtApex)
          /\ rec.TYPE # qtype
          /\ rec.TYPE # "CNAME"
    /\ qtype # ALL_RECORDS

\* C4: when the owner has records and none is a referral, of the type queried or a
\* CNAME, the lookup succeeds with an empty answer, nothing additional, and as its
\* authority the SOA record alone, under the apex name, authoritative, with the TTL
\* the last record of the owner is served with; no lookup succeeds with the answer
\* and the authority both empty.
C4_NegativeAnswer ==
    /\ (IsLookup /\ NothingToAnswer) =>
          value = Success(<< >>,
                          <<RRHeader(soa[1], "SOA", EffectiveTTL(OwnerList[Len(OwnerList)]),
                                     soa[2], TRUE)>>,
                          << >>)
    /\ (IsLookup /\ Succeeded) => ~(value.answer = << >> /\ value.authority = << >>)

\* two records, the last with a TTL of 0 of its own: the SOA is served with 0
C4_Witness ==
    /\ IsLookup /\ NothingToAnswer
    /\ Len(OwnerList) = 2
    /\ OwnerList[1].ttl # 0
    /\ OwnerList[2].ttl = 0
    /\ Succeeded
    /\ value.authority[1].type = "SOA"
    /\ value.authority[1].ttl = 0

---------------------------------------------------------------------------
(* C5 *)

\* every header of the last result
Headers ==
    IF Succeeded
    THEN Range(value.answer) \cup Range(value.authority) \cup Range(value.additional)
    ELSE {}

\* C5: a header made for a stored record with a TTL of its own, 0 included, carries
\* that TTL: in the answer, the authority and the synthesized address records of a
\* lookup, and in a zone transfer.  (The SOA header of a negative answer, which C4 is
\* about, is left out.)
C5_ExplicitTTL ==
    \A h \in Headers :
        (h.payload.ttl # None /\ ~(IsLookup /\ h.type = "SOA")) => h.ttl = h.payload.ttl

---------------------------------------------------------------------------
(* C6 *)

\* C6 as stated: lookupZone of a name that is not the apex fails with the error a
\* lookup has for a name of the zone without records, AuthoritativeDomainError.
C6_Original ==
    (IsLookupZone /\ ~AtApex) =>
        /\ Failed
        /\ value.error = "AuthoritativeDomainError"

\* C6, amended: lookupZone of a name that is not the apex, in or out of the zone,
\* fails with DomainError(name), the error a lookup has for a name outside the zone,
\* and returns no records.
C6_Amended ==
    (IsLookupZone /\ ~AtApex) =>
        /\ Failed
        /\ Sections = {}
        /\ value.error = "DomainError"
        /\ value.name = qname

\* a name of the zone that has records: DomainError all the same
C6_Witness ==
    /\ IsLookupZone /\ ~AtApex
    /\ InZone(qname)
    /\ get(lower(qname)) # << >>
    /\ Failed
    /\ value.error = "DomainError"

---------------------------------------------------------------------------
(* C7 *)

\* the records of item i of the store, as it iterates, that are not SOA records
NonSOA(i) == SelectSeq(items[i][2], LAMBDA rec : rec.TYPE # "SOA")

\* how many such records the items before item i hold
Before(i) ==
    Cardinality(UNION {{<<j, m>> : m \in 1..Len(NonSOA(j))} : j \in 1..(i - 1)})

\* C7: lookupZone of the apex, in any case, succeeds with (records, (), ()): with N
\* records other than the SOA in the store, records has N + 2 elements, the first and
\* the last are the SOA header, and between them each such record stands under its
\* own key, in the order of the store and of its owner's list.
C7_ZoneTransfer ==
    (IsLookupZone /\ AtApex) =>
        /\ Succeeded
        /\ value.authority = << >>
        /\ value.additional = << >>
        /\ LET rs == value.answer
               N == Before(Len(items) + 1)
               soaHeader == RRHeader(soa[1], "SOA", EffectiveTTL(soa[2]), soa[2], TRUE)
           IN  /\ Len(rs) = N + 2
               /\ rs[1] = soaHeader
               /\ rs[Len(rs)] = soaHeader
               /\ \A i \in 1..Len(items) : \A m \in 1..Len(NonSOA(i)) :
                     /\ rs[1 + Before(i) + m].name = items[i][1]
                     /\ rs[1 + Before(i) + m].payload = NonSOA(i)[m]
                     /\ rs[1 + Before(i) + m].type = NonSOA(i)[m].TYPE

\* the apex, asked for in lower case, stands between the two other items of the store,
\* with a record of its own after the SOA: six records between the two SOA headers,
\* the apex's after the three of the item before it
C7_Witness ==
    /\ IsLookupZone /\ AtApex
    /\ qname # soa[1]
    /\ order = <<Www, lower(soa[1]), Child>>
    /\ Len(records[Child]) = 2
    /\ Succeeded
    /\ Len(value.answer) = 8
    /\ value.answer[5].name = lower(soa[1])
    /\ value.answer[6].name = Child

---------------------------------------------------------------------------
(* What the claims about the zone file speak of *)

\* the lines of the file, their comments stripped
Stripped == stripComments(file)

RECURSIVE Flatten(_)
\* the tokens of some lines, in order
Flatten(ls) == IF ls = << >> THEN << >> ELSE Head(ls) \o Flatten(Tail(ls))

\* every "(" of the file is closed by a ")" before the next one, no ")" stands
\* without its "(", and each ")" ends its line
WellFormed ==
    LET parens == SelectSeq(Flatten(Stripped), LAMBDA t : t \in {s_open, s_close})
    IN  /\ Len(parens) % 2 = 0
        /\ \A i \in 1..Len(parens) : parens[i] = IF i % 2 = 1 THEN s_open ELSE s_close
        /\ \A i \in 1..Len(Stripped) :
              find(Stripped[i], s_close) \in {0, Len(Stripped[i])}

\* the tokens of a line after its first "("
afterOpen(line) == SubSeq(line, find(line, s_open) + 1, Len(line))

\* one line of the collapsing the specification describes: a group gives the tokens
\* before its "(" and those between its "(" and its ")", wherever the lines break
GroupStep(acc, line) ==
    IF ~acc.open
    THEN IF find(line, s_open) = 0
         THEN [L |-> Append(acc.L, line), open |-> FALSE]
         ELSE IF find(afterOpen(line), s_close) # 0
         THEN [L |-> Append(acc.L, upTo(line, s_open) \o upTo(afterOpen(line), s_close)),
               open |-> FALSE]
         ELSE [L |-> Append(acc.L, upTo(line, s_open) \o afterOpen(line)), open |-> TRUE]
    ELSE IF find(line, s_close) # 0
         THEN [L |-> extendLast(acc.L, upTo(line, s_close)), open |-> FALSE]
         ELSE [L |-> extendLast(acc.L, line), open |-> TRUE]

RECURSIVE GroupLoop(_, _)
GroupLoop(acc, ls) ==
    IF ls = << >> THEN acc ELSE GroupLoop(GroupStep(acc, Head(ls)), Tail(ls))

\* the logical lines of the file as the specification describes them
LogicalLines ==
    SelectSeq(GroupLoop([L |-> << >>, open |-> FALSE], Stripped).L, LAMBDA line : line # << >>)

\* the continuations have been collapsed
Collapsed == pc \in {"parseLines", "ready", "raised"}

---------------------------------------------------------------------------
(* C8 *)

\* C8: collapsing gives, for a record with a parenthesised group, the tokens before
\* the "(" and then every token between "(" and ")" in order, those on the line of the
\* "(" included, on one physical line as on several; the lines after the line of the
\* ")" are logical lines of their own.
C8_Continuations ==
    (Collapsed /\ WellFormed) => lines = LogicalLines

---------------------------------------------------------------------------
(* C9 *)

\* C9: a zone file with a $INCLUDE or $GENERATE line, at any place, is never loaded:
\* the constructor raises, and no authority, with the records parsed before that
\* line or without, is there for a caller to query.
C9_AllOrNothing ==
    /\ (WellFormed /\ \E i \in 1..Len(LogicalLines) :
                          LogicalLines[i][1] \in {s_INCLUDE, s_GENERATE}) =>
          pc # "ready"
    /\ pc = "raised" => result = NoResult

---------------------------------------------------------------------------
(* C10 *)

\* the record lines parsed so far: each has stored and printed one record
RecordLinesDone ==
    SelectSeq(SubSeq(lines, 1, index - 1), LAMBDA line : line[1] \notin Directives)

\* a record line without an owner token: it starts with a number, a class or a type
NoOwnerToken(line) == isdigit(line[1]) \/ isMarker(line[1])

\* C10: the record of a record line that has no owner token is stored under the
\* lower-cased name the record of the record line before it is stored under.
C10_OwnerPersists ==
    (pc \in {"parseLines", "ready"}) =>
        \A k \in 2..Len(RecordLinesDone) :
            NoOwnerToken(RecordLinesDone[k]) =>
                lower(printed[k][1]) = lower(printed[k - 1][1])

====
